---- MODULE Spec2Model ----
(***************************************************************************)
(* A model of the FixedEye environment base class                          *)
(* (UIB/envs/mobl_arms/models/FixedEye.py) and of the episode loop of the  *)
(* tracking evaluation script (UIB/test/evaluate-tracking.py).             *)
(*                                                                         *)
(* Numbers.  The source computes in floating point; the model computes in  *)
(* exact integers on grids:                                                *)
(*   - angles and angular velocities are whole degrees, so np.pi is 180;   *)
(*     the reset bound 0.05 rad is 2.86 degrees, so the whole-degree       *)
(*     samples of uniform(-0.05, 0.05) are -2 .. 2;                        *)
(*   - the polynomial coefficient eq_data[., 1] is kept as its numerator   *)
(*     over Pi (a stored 180 is the coefficient 1.0);                      *)
(*   - a joint range bound is kept as its numerator over Pi/2 (a stored    *)
(*     -8100 is -90 degrees, which is -pi/2);                              *)
(*   - activations, controls and actions are multiples of 1/ActRes (a      *)
(*     stored ActRes is 1.0);                                              *)
(*   - sim.data.time is counted in simulation steps of env.dt.             *)
(***************************************************************************)
EXTENDS Integers, Sequences, FiniteSets, TLC

VARIABLES
  model,    \* self.model / self.sim.model: the loaded MuJoCo model (eq_data and jnt_range are written by set_ctrl)
  data,     \* self.sim.data: qpos, qvel, qacc, act, ctrl, time, fingertip position
  self,     \* the FixedEye object's own fields
  calls,    \* the calls the last operation made on its collaborators, in order
  ret,      \* what the last operation returned or raised
  harness   \* the evaluation script: position in the episode loop, logs

vars == <<model, data, self, calls, ret, harness>>

----------------------------------------------------------------------------
(* Bounds of the model *)

\* the most equality constraints a model of the constructor's input set holds
MaxEq == 2
\* activations, controls and actions are multiples of 1/ActRes
ActRes == 2
\* the physics steps a run of the environment interface takes between resets
MaxTime == 2
\* the largest --num_episodes the evaluation script is run with
MaxEpisodes == 1

(* Program constants *)

\* np.pi, in degrees
Pi == 180
\* the reset bound 0.05 (rad), in whole degrees
QBound == 2
\* the trajectory size np.arange(1000 + 1).size
TrajectorySize == 1001

\* Python's None where the other values are integers
None == 0 - 1

----------------------------------------------------------------------------
(* Small helpers *)

Min(a, b) == IF a <= b THEN a ELSE b
Max(a, b) == IF a >= b THEN a ELSE b

\* np.clip(x, lo, hi)
Clip(x, lo, hi) == Max(lo, Min(x, hi))

RECURSIVE SortedSeq(_)
\* the members of a set of integers in ascending order
SortedSeq(S) ==
  IF S = {} THEN <<>>
  ELSE LET m == CHOOSE x \in S : \A y \in S : x <= y
       IN  <<m>> \o SortedSeq(S \ {m})

Range(s) == {s[k] : k \in 1..Len(s)}

----------------------------------------------------------------------------
(* The loaded model: mujoco_py.load_model_from_path(self.xml_file) *)

\* joint ids are 0 .. njnt-1
Joints(m) == 0..(m.njnt - 1)
\* actuator ids are 0 .. na-1
Actuators(m) == 0..(m.na - 1)
\* equality constraint ids are 0 .. neq-1
EqIds(m) == 0..(Len(m.eq) - 1)

\* sim.model.joint_id2name(id), for an id the model has
joint_id2name(m, id) == m.names[id + 1]
\* sim.model.joint_name2id(name), for a name the model has
joint_name2id(m, name) == CHOOSE j \in Joints(m) : m.names[j + 1] = name

\* the unshifted shoulder_rot range [-pi/2, pi/9] of set_ctrl, as numerators over Pi/2
BaseRotRange == <<(0 - (Pi \div 2)) * (Pi \div 2), (Pi \div 9) * (Pi \div 2)>>

\* the joint orders of the input models: the order of the arm model (a joint
\* before the shoulder joints), the orders with elv_angle or shoulder1_r2 as
\* joint 0, and a model without the shoulder joints
JointOrders ==
  { <<"other", "elv_angle", "shoulder_elv", "shoulder1_r2", "shoulder_rot">>,
    <<"elv_angle", "shoulder_elv", "shoulder1_r2", "shoulder_rot">>,
    <<"shoulder1_r2", "elv_angle", "shoulder_elv", "shoulder_rot">>,
    <<"other">> }

\* the equality constraints a model of njnt joints can hold: a joint constraint
\* (type 2) couples joint obj1id to joint obj2id, or to none (-1); a weld
\* (type 1) names bodies, of which there is one more than joints (the world)
EqConstraints(njnt) ==
  { [type |-> 2, obj1id |-> a, obj2id |-> b, active |-> act] :
      a \in 0..(njnt - 1), b \in None..(njnt - 1), act \in BOOLEAN }
  \cup
  { [type |-> 1, obj1id |-> a, obj2id |-> 0, active |-> act] :
      a \in 1..njnt, act \in BOOLEAN }

\* the sequences over S of length at most n
SeqUpTo(S, n) == UNION { [1..k -> S] : k \in 0..n }

\* the joint ranges of the arm model file, as numerators over Pi/2: elv_angle
\* -90..130 degrees, shoulder_elv 0..180, shoulder_rot -90..20 (the unshifted
\* range of set_ctrl), every other joint -90..90
StaticRange(name) ==
  CASE name = "elv_angle"    -> <<(0 - (Pi \div 2)) * (Pi \div 2), 130 * (Pi \div 2)>>
    [] name = "shoulder_elv" -> <<0, Pi * (Pi \div 2)>>
    [] name = "shoulder_rot" -> BaseRotRange
    [] OTHER                 -> <<(0 - (Pi \div 2)) * (Pi \div 2), (Pi \div 2) * (Pi \div 2)>>

\* a loaded model: its joints in order, its equality constraints, na actuators;
\* every eq_data[., 1] starts at 1.0
LoadedModel(names, eq, na) ==
  [ njnt      |-> Len(names),
    names     |-> names,
    na        |-> na,
    eq        |-> eq,
    eq_data   |-> [k \in 1..Len(eq) |-> Pi],
    jnt_range |-> [j \in 0..(Len(names) - 1) |-> StaticRange(names[j + 1])],
    cameras   |-> <<"for_testing", "oculomotor">> ]

\* the models of the constructor's input set with the joints in the order names
CtorModels(names) ==
  { LoadedModel(names, eq, 1) : eq \in SeqUpTo(EqConstraints(Len(names)), MaxEq) }

\* the arm model: shoulder1_r2 is coupled to shoulder_elv and, by the one joint
\* constraint the shoulder patch looks for, to elv_angle; a weld is inactive
ArmModel ==
  LoadedModel(<<"other", "elv_angle", "shoulder_elv", "shoulder1_r2", "shoulder_rot">>,
              << [type |-> 2, obj1id |-> 3, obj2id |-> 2, active |-> TRUE],
                 [type |-> 2, obj1id |-> 3, obj2id |-> 1, active |-> TRUE],
                 [type |-> 1, obj1id |-> 5, obj2id |-> 0, active |-> FALSE] >>,
              1)

\* a model without equality constraints and with two actuators
FreeModel == LoadedModel(<<"other">>, <<>>, 2)

ShoulderVariants == {"original", "patch-v1", "patch-v2"}

\* shoulder_variant.startswith("patch")
IsPatch(variant) == variant \in {"patch-v1", "patch-v2"}

----------------------------------------------------------------------------
(* The state before __init__ runs: the model file and the keyword arguments *)

\* MjSim(model): a fresh simulation state
FreshData(m) ==
  [ qpos |-> [j \in Joints(m) |-> 0],
    qvel |-> [j \in Joints(m) |-> 0],
    qacc |-> [j \in Joints(m) |-> 0],
    act  |-> [a \in Actuators(m) |-> 0],
    ctrl |-> [a \in Actuators(m) |-> 0],
    xpos |-> <<0, 0, 0>>,
    time |-> 0 ]

\* the object before __init__: only its arguments are known
NewSelf(variant, render_observations) ==
  [ status              |-> "new",
    shoulder_variant    |-> variant,
    render_observations |-> render_observations,
    dependent_joints    |-> {},
    independent_joints  |-> <<>>,
    eq_ID_shoulder1_r2  |-> None,
    viewer              |-> "None",
    viewers             |-> {},
    steps               |-> 0 ]

\* the evaluation script before it starts ("idle": the script is not running)
IdleHarness ==
  [ pc |-> "idle", num_episodes |-> 0, logging |-> FALSE, episode_idx |-> 0,
    i |-> 0, done |-> FALSE, target_index |-> 0, state_log |-> <<>> ]

InitWith(models, flags) ==
  /\ model \in models
  /\ model.njnt > 0
  /\ data = FreshData(model)
  /\ \E v \in ShoulderVariants, r \in flags : self = NewSelf(v, r)
  /\ calls = <<>>
  /\ ret = [op |-> "none"]
  /\ harness = IdleHarness

----------------------------------------------------------------------------
(* FixedEye.__init__ *)

\* np.unique(model.eq_obj1id[model.eq_active.astype(bool)])
DependentJoints(m) ==
  { m.eq[k].obj1id : k \in {i \in 1..Len(m.eq) : m.eq[i].active} }

\* list(set(np.arange(model.njnt)) - set(dependent_joints))
IndependentJoints(m) == SortedSeq(Joints(m) \ DependentJoints(m))

\* the tests of the list comprehension that come before the name lookups:
\* eq_type[idx] == 2 and (id_1 := eq_obj1id[idx]) > 0 and (id_2 := eq_obj2id[idx])
EqReachesLookup(m, idx) ==
  LET e == m.eq[idx + 1]
  IN  e.type = 2 /\ e.obj1id > 0 /\ e.obj2id # 0

\* joint_id2name raises ValueError for an id that is no joint (-1: no second joint)
EqLookupRaises(m, idx) ==
  LET e == m.eq[idx + 1]
  IN  /\ EqReachesLookup(m, idx)
      /\ (e.obj1id \notin Joints(m) \/ e.obj2id \notin Joints(m))

\* the whole condition of the list comprehension for constraint idx
EqIsShoulder1R2(m, idx) ==
  LET e == m.eq[idx + 1]
  IN  /\ EqReachesLookup(m, idx)
      /\ e.obj1id \in Joints(m) /\ e.obj2id \in Joints(m)
      /\ {joint_id2name(m, e.obj1id), joint_id2name(m, e.obj2id)}
           = {"shoulder1_r2", "elv_angle"}

\* eq_ID_shoulder1_r2, the list the comprehension builds, in index order
EqIDList(m) == SortedSeq({idx \in EqIds(m) : EqIsShoulder1R2(m, idx)})

\* how __init__ ends: "ok", or the exception it raises
InitOutcome(m, variant) ==
  IF ~IsPatch(variant) THEN "ok"
  ELSE IF \E idx \in EqIds(m) : EqLookupRaises(m, idx) THEN "ValueError"
  ELSE IF Len(EqIDList(m)) = 1 THEN "ok"
  ELSE "AssertionError"

\* the object __init__ leaves behind; a raising __init__ leaves none, and the
\* fields stay as they were
Constructed(m, s) ==
  LET outcome == InitOutcome(m, s.shoulder_variant)
  IN  IF outcome # "ok" THEN [s EXCEPT !.status = outcome]
      ELSE [s EXCEPT
              !.status = "ok",
              !.dependent_joints = DependentJoints(m),
              !.independent_joints = IndependentJoints(m),
              !.eq_ID_shoulder1_r2 =
                 IF IsPatch(s.shoulder_variant) THEN EqIDList(m)[1] ELSE None]

Construct ==
  /\ self.status = "new"
  /\ harness.pc = "idle"
  /\ self' = Constructed(model, self)
  /\ calls' = <<>>
  /\ ret' = [op |-> "__init__", raised |-> self'.status # "ok"]
  /\ UNCHANGED <<model, data, harness>>

----------------------------------------------------------------------------
(* Operations are functions of the "world": the model, the simulation data,
   the object, and the calls made so far by the operation that is running *)

World == [model |-> model, data |-> data, self |-> self, calls |-> <<>>]

Becomes(w) ==
  /\ model' = w.model
  /\ data' = w.data
  /\ self' = w.self
  /\ calls' = w.calls

\* a call on a collaborator (the simulation, the effort term, a viewer)
Called(w, name) == [w EXCEPT !.calls = Append(@, [name |-> name])]

----------------------------------------------------------------------------
(* The simulation backend, as far as the environment relies on it *)

\* what sim.forward() derives: accelerations and the fingertip position
Kinematics == { [acc |-> 0, xpos |-> <<0, 0, 0>>], [acc |-> 3, xpos |-> <<1, 2, 3>>] }

\* sim.reset(): the data goes back to the model's defaults, the model stays
SimReset(w) == Called([w EXCEPT !.data = FreshData(w.model)], "sim.reset")

\* sim.forward(): derived quantities are recomputed; qpos, qvel, act, time stay
SimForward(w, kin) ==
  Called([w EXCEPT !.data.qacc = [j \in Joints(w.model) |-> kin.acc],
                   !.data.xpos = kin.xpos], "sim.forward")

\* the states one sim.step() can lead to: shoulder_elv at elv, every other
\* joint at ang, the activation at a
PhysicsOutcomes ==
  { [elv |-> e, ang |-> g, act |-> a] :
      e \in {0, Pi \div 2, Pi}, g \in {0 - (Pi \div 2), Pi \div 2}, a \in 0..ActRes }

\* sim.step(): the physics advances by one environment step
SimStep(w, o) ==
  LET m == w.model
  IN  Called([w EXCEPT
        !.data.qpos = [j \in Joints(m) |->
                         IF joint_id2name(m, j) = "shoulder_elv" THEN o.elv ELSE o.ang],
        !.data.qvel = [j \in Joints(m) |-> o.ang],
        !.data.qacc = [j \in Joints(m) |-> o.elv],
        !.data.act  = [a \in Actuators(m) |-> o.act],
        !.data.xpos = <<o.elv, o.ang, 0>>,
        !.data.time = @ + 1], "sim.step")

----------------------------------------------------------------------------
(* FixedEye.set_ctrl *)

\* a set_ctrl that forgets to clip
CtrlOf_Unclipped(act, action) == act + action

\* np.clip(act + action, 0, 1), one component
CtrlOf(act, action) == Clip(act + action, 0, ActRes)

\* a coupling law that forgets to double the elevation
CouplingCoef_NoDouble(elevation) == 0 - (Pi - elevation)

\* -((np.pi - 2 * elevation) / np.pi), as a numerator over Pi
CouplingCoef(elevation) == 0 - (Pi - 2 * elevation)

\* a range shift without the reflection pi - elevation
RotShift_NoReflection(elevation, elv_angle) == elevation * elv_angle

\* 2 * np.min((elevation, np.pi - elevation)) / np.pi * elv_angle, as a numerator over Pi/2
RotShift(elevation, elv_angle) == Min(elevation, Pi - elevation) * elv_angle

\* np.array([-np.pi / 2, np.pi / 9]) - shift, as numerators over Pi/2
RotRange(elevation, elv_angle) ==
  << BaseRotRange[1] - RotShift(elevation, elv_angle),
     BaseRotRange[2] - RotShift(elevation, elv_angle) >>

\* the shoulder patch of set_ctrl: the coupling coefficient of the cached constraint
PatchCoef(w) ==
  LET elv == w.data.qpos[joint_name2id(w.model, "shoulder_elv")]
  IN  [w EXCEPT !.model.eq_data[w.self.eq_ID_shoulder1_r2 + 1] = CouplingCoef(elv)]

\* the patch-v2 part of set_ctrl: the range of shoulder_rot
PatchRange(w) ==
  LET elv == w.data.qpos[joint_name2id(w.model, "shoulder_elv")]
      ang == w.data.qpos[joint_name2id(w.model, "elv_angle")]
  IN  [w EXCEPT !.model.jnt_range[joint_name2id(w.model, "shoulder_rot")] = RotRange(elv, ang)]

\* a set_ctrl that moves the shoulder_rot range under every patch variant
SetCtrl_RangeInEveryPatch(w, action) ==
  LET w1 == [w EXCEPT !.data.ctrl =
                [a \in Actuators(w.model) |-> CtrlOf(w.data.act[a], action[a + 1])]]
  IN  IF IsPatch(w.self.shoulder_variant) THEN PatchRange(PatchCoef(w1)) ELSE w1

\* set_ctrl(action)
SetCtrl(w, action) ==
  LET w1 == [w EXCEPT !.data.ctrl =
                [a \in Actuators(w.model) |-> CtrlOf(w.data.act[a], action[a + 1])]]
      w2 == IF IsPatch(w.self.shoulder_variant) THEN PatchCoef(w1) ELSE w1
  IN  IF w.self.shoulder_variant = "patch-v2" THEN PatchRange(w2) ELSE w2

\* the actions a caller passes: inside the action space [-1, 1] and beyond it
Actions(m) ==
  { [k \in 1..m.na |-> v] : v \in {0 - (ActRes + 1), 0 - 1, 0, 1, ActRes + 1} }

----------------------------------------------------------------------------
(* FixedEye.get_observation *)

\* ((qpos - low / (high - low)) - 0.5) * 2 with qpos in radians: the exact value
\* is deg * pi/90 + num / den
NormQpos(q, range) ==
  [deg |-> q, num |-> 0 - (range[1] + range[2]), den |-> range[2] - range[1]]

\* (act - 0.5) * 2, as a numerator over ActRes
NormAct(a) == 2 * a - ActRes

\* the image sim.render(width=120, height=80, camera_name='oculomotor', depth=True)
\* becomes: np.concatenate([rgb, expand_dims(depth, 2)], axis=2)
Visual == [height |-> 80, width |-> 120, channels |-> 3 + 1]

\* a proprioception vector that leaves the accelerations out
Proprioception_NoQacc(w) ==
  LET ind == w.self.independent_joints
      d == w.data
  IN  [k \in 1..Len(ind) |->
          [of |-> "qpos", value |-> NormQpos(d.qpos[ind[k]], w.model.jnt_range[ind[k]])]]
      \o [k \in 1..Len(ind) |-> [of |-> "qvel", value |-> d.qvel[ind[k]]]]
      \o [k \in 1..3 |-> [of |-> "fingertip", value |-> d.xpos[k]]]
      \o [k \in 1..w.model.na |-> [of |-> "act", value |-> NormAct(d.act[k - 1])]]

\* np.concatenate([qpos, qvel, qacc, fingertip_position, act])
Proprioception(w) ==
  LET ind == w.self.independent_joints
      d == w.data
  IN  [k \in 1..Len(ind) |->
          [of |-> "qpos", value |-> NormQpos(d.qpos[ind[k]], w.model.jnt_range[ind[k]])]]
      \o [k \in 1..Len(ind) |-> [of |-> "qvel", value |-> d.qvel[ind[k]]]]
      \o [k \in 1..Len(ind) |-> [of |-> "qacc", value |-> d.qacc[ind[k]]]]
      \o [k \in 1..3 |-> [of |-> "fingertip", value |-> d.xpos[k]]]
      \o [k \in 1..w.model.na |-> [of |-> "act", value |-> NormAct(d.act[k - 1])]]

\* the world after get_observation: the renderer is called only when
\* render_observations is set
Observed(w) ==
  IF w.self.render_observations THEN Called(w, "sim.render") ELSE w

\* the dictionary get_observation returns
Observation(w) ==
  [ proprioception |-> Proprioception(w),
    visual |-> IF w.self.render_observations
               THEN [none |-> FALSE, image |-> Visual]
               ELSE [none |-> TRUE] ]

----------------------------------------------------------------------------
(* FixedEye.reset *)

\* rng.uniform(low, high) for n components: the draws of the model have every
\* component at one end of the interval
UniformDraws(n, low, high) == { [k \in 1..n |-> u] : u \in {low, high} }

\* a reset that writes the sample to every joint
Scatter_EveryJoint(m, ind, sample) ==
  [j \in Joints(m) |-> IF Len(sample) = 0 THEN 0 ELSE sample[1]]

\* qpos.fill(0); qpos[independent_joints] = sample
Scatter(m, ind, sample) ==
  [j \in Joints(m) |->
     IF \E k \in 1..Len(ind) : ind[k] = j
     THEN sample[CHOOSE k \in 1..Len(ind) : ind[k] = j]
     ELSE 0]

\* the assignments of reset between sim.reset() and effort_term.reset()
WriteState(w, qpos, qvel, act) ==
  [w EXCEPT
     !.data.qpos = Scatter(w.model, w.self.independent_joints, qpos),
     !.data.qvel = Scatter(w.model, w.self.independent_joints, qvel),
     !.data.act  = [a \in Actuators(w.model) |-> act[a + 1]]]

\* effort_term.reset(), with the state the effort term finds
EffortReset(w) ==
  [w EXCEPT !.calls = Append(@, [name |-> "effort_term.reset",
                                 qpos |-> w.data.qpos, qvel |-> w.data.qvel,
                                 act |-> w.data.act])]

\* reset() up to its return statement
Reset(w, qpos, qvel, act, kin) ==
  SimForward(EffortReset(WriteState(SimReset(w), qpos, qvel, act)), kin)

----------------------------------------------------------------------------
(* FixedEye.get_state *)

GetState(w) ==
  LET ind == w.self.independent_joints
  IN  [ step |-> w.self.steps,
        timestep |-> w.data.time,
        qpos |-> [k \in 1..Len(ind) |-> w.data.qpos[ind[k]]],
        qvel |-> [k \in 1..Len(ind) |-> w.data.qvel[ind[k]]],
        qacc |-> [k \in 1..Len(ind) |-> w.data.qacc[ind[k]]],
        act |-> w.data.act,
        fingertip_xpos |-> w.data.xpos,
        termination |-> FALSE ]

----------------------------------------------------------------------------
(* The environment's interface as actions *)

Ready == self.status = "ok" /\ harness.pc = "idle"

reset ==
  /\ Ready
  /\ \E qpos \in UniformDraws(Len(self.independent_joints), 0 - QBound, QBound),
        qvel \in UniformDraws(Len(self.independent_joints), 0 - QBound, QBound),
        act \in UniformDraws(model.na, 0, ActRes),
        kin \in Kinematics :
       LET w == Reset(World, qpos, qvel, act, kin)
       IN  /\ Becomes(Observed(w))
           /\ ret' = [op |-> "reset", value |-> Observation(w)]
  /\ UNCHANGED harness

set_ctrl ==
  /\ Ready
  /\ \E action \in Actions(model) :
       /\ Becomes(SetCtrl(World, action))
       /\ ret' = [op |-> "set_ctrl", action |-> action, act |-> data.act]
  /\ UNCHANGED harness

\* the physics step a subclass's step() takes after set_ctrl
sim_step ==
  /\ Ready
  /\ data.time < MaxTime
  /\ \E o \in PhysicsOutcomes : Becomes(SimStep(World, o))
  /\ ret' = [op |-> "sim.step"]
  /\ UNCHANGED harness

get_observation ==
  /\ Ready
  /\ Becomes(Observed(World))
  /\ ret' = [op |-> "get_observation", value |-> Observation(World)]
  /\ UNCHANGED harness

get_state ==
  /\ Ready
  /\ Becomes(World)
  /\ ret' = [op |-> "get_state", value |-> GetState(World)]
  /\ UNCHANGED harness

Init == InitWith({ArmModel, FreeModel}, BOOLEAN)

Next == Construct \/ reset \/ set_ctrl \/ sim_step \/ get_observation \/ get_state

Spec == Init /\ [][Next]_vars

----------------------------------------------------------------------------
(* FixedEye.render and FixedEye._get_viewer *)

\* _get_viewer(mode): the cached viewer of the mode, created on first use
GetViewer(w, mode) ==
  LET made == IF mode \in w.self.viewers THEN w
              ELSE Called(w, IF mode = "human" THEN "MjViewer"
                             ELSE "MjRenderContextOffscreen")
  IN  [made EXCEPT !.self.viewer = mode, !.self.viewers = @ \cup {mode}]

\* a call on the viewer _get_viewer(mode) returns
ViewerCalled(w, mode, name, camera_id) ==
  [GetViewer(w, mode) EXCEPT
     !.calls = Append(@, [name |-> name, mode |-> mode, camera_id |-> camera_id])]

\* camera_id is not None and camera_name is not None, in one of the array modes
RenderRaises(mode, camera_id, camera_name) ==
  /\ mode \in {"rgb_array", "depth_array"}
  /\ camera_id # None /\ camera_name # "None"

\* the camera id the array modes render with
ResolvedCamera(m, camera_id, camera_name) ==
  LET name == IF camera_name = "None" /\ camera_id = None THEN "track" ELSE camera_name
  IN  IF camera_id = None /\ name \in Range(m.cameras)
      THEN (CHOOSE k \in 1..Len(m.cameras) : m.cameras[k] = name) - 1
      ELSE camera_id

\* a render that looks at the camera arguments only after the first frame
Rendered_LateCheck(w, mode, camera_id, camera_name) ==
  IF mode \in {"rgb_array", "depth_array"}
  THEN ViewerCalled(w, mode, "viewer.render",
                    ResolvedCamera(w.model, camera_id, camera_name))
  ELSE IF mode = "human" THEN ViewerCalled(w, mode, "viewer.render", None)
  ELSE w

\* the world after render(mode, camera_id=, camera_name=)
Rendered(w, mode, camera_id, camera_name) ==
  IF RenderRaises(mode, camera_id, camera_name) THEN w
  ELSE IF mode = "rgb_array"
  THEN ViewerCalled(
         ViewerCalled(w, mode, "viewer.render",
                      ResolvedCamera(w.model, camera_id, camera_name)),
         mode, "viewer.read_pixels", None)
  ELSE IF mode = "depth_array"
  THEN ViewerCalled(
         ViewerCalled(
           ViewerCalled(w, mode, "viewer.render",
                        ResolvedCamera(w.model, camera_id, camera_name)),
           mode, "viewer.render", None),
         mode, "viewer.read_pixels", None)
  ELSE IF mode = "human" THEN ViewerCalled(w, mode, "viewer.render", None)
  ELSE w

RenderModes == {"human", "rgb_array", "depth_array", "other"}
CameraIds == {None, 0, 1}
CameraNames == {"None", "oculomotor", "track"}

render ==
  /\ Ready
  /\ \E mode \in RenderModes, camera_id \in CameraIds, camera_name \in CameraNames :
       /\ Becomes(Rendered(World, mode, camera_id, camera_name))
       /\ ret' = [op |-> "render", mode |-> mode, camera_id |-> camera_id,
                  camera_name |-> camera_name,
                  raised |-> RenderRaises(mode, camera_id, camera_name)]
  /\ UNCHANGED harness

NextRender == Construct \/ render

SpecRender == Init /\ [][NextRender]_vars

----------------------------------------------------------------------------
(* The task environment the evaluation script drives: a subclass of FixedEye
   that keeps the step counter get_state reads *)

\* the subclass's reset(): the step counter restarts, then FixedEye.reset()
EnvReset(w, qpos, qvel, act, kin) ==
  Observed(Reset([w EXCEPT !.self.steps = 0], qpos, qvel, act, kin))

\* the subclass's step(action): set_ctrl, one physics step, one more step counted
EnvStep(w, action, o) ==
  LET w1 == SimStep(SetCtrl(w, action), o)
  IN  Observed([w1 EXCEPT !.self.steps = @ + 1])

\* the actions the policy returns: inside the action space [-1, 1]
PolicyActions(m) == { [k \in 1..m.na |-> v] : v \in {0 - ActRes, ActRes} }

\* the physics outcomes of the evaluated episodes
EpisodeOutcomes ==
  { o \in PhysicsOutcomes : o.elv = Pi \div 2 /\ o.ang = Pi \div 2 /\ o.act = ActRes }

----------------------------------------------------------------------------
(* evaluate-tracking.py: the main block *)

\* a loop that takes one step per trajectory sample
StepsPerEpisode_OnePerSample == TrajectorySize

\* range(sin_y.size - 1): the steps of one episode
StepsPerEpisode == TrajectorySize - 1

\* update_target_location: sin_y[env.steps] is read (an index outside the
\* trajectory raises), the target body is moved, sim.forward() is called
TargetIndexOk(w) == w.self.steps >= 0 /\ w.self.steps < TrajectorySize

\* the record state_logger.log keeps of get_state(): the fields the log is
\* read for
Logged(w) == [step |-> GetState(w).step, timestep |-> GetState(w).timestep]

\* state_logger.log(episode_idx, state), when logging is on
LogState(h, w) ==
  IF h.logging
  THEN [h EXCEPT !.state_log[h.episode_idx + 1] = Append(@, Logged(w))]
  ELSE h

\* lines 80-149: the arguments are parsed, the environment is made, the
\* loggers are initialised; a constructor that raises ends the script
main_setup ==
  /\ harness.pc = "idle"
  /\ self.status = "new"
  /\ \E n \in 1..MaxEpisodes, logging \in BOOLEAN :
       /\ self' = Constructed(model, self)
       /\ harness' = [harness EXCEPT
                        !.pc = IF self'.status = "ok" THEN "episodes" ELSE "raised",
                        !.num_episodes = n,
                        !.logging = logging,
                        !.state_log = [e \in 1..n |-> <<>>]]
  /\ calls' = <<>>
  /\ ret' = [op |-> "main_setup"]
  /\ UNCHANGED <<model, data>>

\* lines 151-169: the trajectory is generated, the environment reset, the
\* target placed, the first observation taken and the first state logged
episode_begin ==
  /\ harness.pc = "episodes"
  /\ harness.episode_idx < harness.num_episodes
  /\ \E qpos \in UniformDraws(Len(self.independent_joints), 0 - QBound, QBound),
        qvel \in UniformDraws(Len(self.independent_joints), 0 - QBound, QBound),
        act \in UniformDraws(model.na, 0, ActRes),
        kin \in Kinematics :
       LET w1 == EnvReset(World, qpos, qvel, act, kin)
           w2 == Observed(SimForward(w1, kin))
       IN  IF TargetIndexOk(w1)
           THEN /\ Becomes(w2)
                /\ harness' = [LogState(harness, w2) EXCEPT
                                 !.pc = "steps", !.i = 0, !.done = FALSE,
                                 !.target_index = w1.self.steps]
           ELSE /\ Becomes(w1)
                /\ harness' = [harness EXCEPT !.pc = "raised"]
  /\ ret' = [op |-> "episode_begin"]

\* lines 172-194: one pass of the step loop
episode_step ==
  /\ harness.pc = "steps"
  /\ harness.i < StepsPerEpisode
  /\ \E action \in PolicyActions(model), o \in EpisodeOutcomes,
        kin \in Kinematics, done \in BOOLEAN :
       LET w1 == EnvStep(World, action, o)
           h1 == [LogState(harness, w1) EXCEPT !.done = done]
           w2 == Observed(SimForward(w1, kin))
       IN  IF TargetIndexOk(w1)
           THEN /\ Becomes(w2)
                /\ harness' = [h1 EXCEPT !.i = @ + 1, !.target_index = w1.self.steps]
           ELSE /\ Becomes(w1)
                /\ harness' = [h1 EXCEPT !.pc = "raised"]
  /\ ret' = [op |-> "episode_step"]

\* the step loop is exhausted: the next episode
episode_end ==
  /\ harness.pc = "steps"
  /\ harness.i = StepsPerEpisode
  /\ harness' = [harness EXCEPT !.pc = "episodes", !.episode_idx = @ + 1]
  /\ ret' = [op |-> "episode_end"]
  /\ UNCHANGED <<model, data, self, calls>>

\* lines 196-206: the logs are saved
main_finish ==
  /\ harness.pc = "episodes"
  /\ harness.episode_idx = harness.num_episodes
  /\ harness' = [harness EXCEPT !.pc = "saved"]
  /\ ret' = [op |-> "main_finish"]
  /\ UNCHANGED <<model, data, self, calls>>

InitHarness == InitWith({FreeModel}, {FALSE})

NextHarness == main_setup \/ episode_begin \/ episode_step \/ episode_end \/ main_finish

SpecHarness == InitHarness /\ [][NextHarness]_vars

----------------------------------------------------------------------------
(* The constructor over every model of its input set *)

InitCtor ==
  \E names \in JointOrders : InitWith(CtorModels(names), {FALSE})

NextCtor == Construct \/ get_state

SpecCtor == InitCtor /\ [][NextCtor]_vars

----------------------------------------------------------------------------
(* Properties of the environment's interface, checked under Spec *)

\* the joint ids the patch reads and writes
ElvId == joint_name2id(model, "shoulder_elv")
AngId == joint_name2id(model, "elv_angle")
RotId == joint_name2id(model, "shoulder_rot")

CallsNamed(name) == {k \in 1..Len(calls) : calls[k].name = name}

\* C2: after every set_ctrl(action), every control component lies in [0, 1] and
\* is the activation at call time plus the action, cut off at 0 and at 1,
\* whatever the size of the action.
C2_CtrlClipped ==
  ret.op = "set_ctrl" =>
    \A a \in Actuators(model) :
      LET sum == ret.act[a] + ret.action[a + 1]
      IN  /\ data.ctrl[a] >= 0 /\ data.ctrl[a] <= ActRes
          /\ data.ctrl[a] = IF sum < 0 THEN 0 ELSE IF sum > ActRes THEN ActRes ELSE sum

\* C2's case: an action that drives the sum above 1 has been applied and clipped.
C2_Witness ==
  /\ ret.op = "set_ctrl"
  /\ ret.act[0] + ret.action[1] > ActRes
  /\ data.ctrl[0] = ActRes

\* C3: after reset(), every independent joint's qpos and qvel lies in
\* [-0.05, 0.05], every activation lies in [0, 1], every dependent joint's qpos
\* and qvel is 0 (never a sample), and effort_term.reset() ran exactly once:
\* after sim.reset(), with the state already written, and before sim.forward()
\* and before the observation's rendering.
C3_ResetSamplesIndependentOnly ==
  ret.op = "reset" =>
    /\ \A j \in Range(self.independent_joints) :
         /\ data.qpos[j] >= 0 - QBound /\ data.qpos[j] <= QBound
         /\ data.qvel[j] >= 0 - QBound /\ data.qvel[j] <= QBound
    /\ \A a \in Actuators(model) : data.act[a] >= 0 /\ data.act[a] <= ActRes
    /\ \A j \in self.dependent_joints \cap Joints(model) :
         data.qpos[j] = 0 /\ data.qvel[j] = 0
    /\ Cardinality(CallsNamed("effort_term.reset")) = 1
    /\ \A k \in CallsNamed("effort_term.reset") :
         /\ calls[k].qpos = data.qpos /\ calls[k].qvel = data.qvel
         /\ calls[k].act = data.act
         /\ \E i \in CallsNamed("sim.reset") : i < k
         /\ \E i \in CallsNamed("sim.forward") : i > k
         /\ \A i \in CallsNamed("sim.forward") \cup CallsNamed("sim.render") : i > k

\* C3's case: a reset of a model with a dependent joint has sampled the bound.
C3_Witness ==
  /\ ret.op = "reset"
  /\ self.dependent_joints \cap Joints(model) # {}
  /\ \E j \in Range(self.independent_joints) : data.qpos[j] = QBound /\ data.qvel[j] = 0 - QBound
  /\ data.act[0] = ActRes

\* C4: an observation returned by reset() or get_observation() has a
\* proprioception vector of length 3*|independent joints| + 3 + n_actuators, in
\* the order qpos, qvel, qacc, fingertip, activation; its visual field is null
\* exactly when render_observations is off; when on, the image has 4 channels
\* and the renderer was called; when off, the renderer is never called.
C4_ObservationShape ==
  /\ ret.op \in {"reset", "get_observation"} =>
       LET p == ret.value.proprioception
           n == Len(self.independent_joints)
       IN  /\ Len(p) = 3 * n + 3 + model.na
           /\ \A k \in 1..Len(p) :
                p[k].of = IF k <= n THEN "qpos"
                          ELSE IF k <= 2 * n THEN "qvel"
                          ELSE IF k <= 3 * n THEN "qacc"
                          ELSE IF k <= 3 * n + 3 THEN "fingertip"
                          ELSE "act"
           /\ ret.value.visual.none <=> ~self.render_observations
           /\ self.render_observations =>
                /\ ret.value.visual.image.channels = 4
                /\ CallsNamed("sim.render") # {}
  /\ ~self.render_observations => CallsNamed("sim.render") = {}

\* C4's case: reset() with rendering off has returned a null visual field.
C4_Witness ==
  /\ ret.op = "reset"
  /\ ~self.render_observations
  /\ ret.value.visual.none
  /\ Len(self.independent_joints) > 0
  /\ Len(ret.value.proprioception) = 3 * Len(self.independent_joints) + 3 + model.na

\* C6: under a patch variant, the coefficient set_ctrl has just written is
\* -(pi - 2*elevation)/pi of the current elevation (never a stale value); it
\* lies in [-1, 1] for an elevation in [0, pi], is -1 at 0 and +1 at pi.
C6_CouplingCoefBounded ==
  (ret.op = "set_ctrl" /\ IsPatch(self.shoulder_variant)) =>
    LET e == data.qpos[ElvId]
        c == model.eq_data[self.eq_ID_shoulder1_r2 + 1]
    IN  /\ c + Pi = 2 * e
        /\ (e >= 0 /\ e <= Pi) => (c >= 0 - Pi /\ c <= Pi)
        /\ e = 0 => c = 0 - Pi
        /\ e = Pi => c = Pi

\* C6's case: set_ctrl at elevation 0 has replaced the coefficient by -1.
C6_Witness ==
  /\ ret.op = "set_ctrl"
  /\ IsPatch(self.shoulder_variant)
  /\ data.qpos[ElvId] = 0
  /\ data.time > 0
  /\ model.eq_data[self.eq_ID_shoulder1_r2 + 1] = 0 - Pi

WithinStaticRotRange(r) ==
  r[1] >= StaticRange("shoulder_rot")[1] /\ r[2] <= StaticRange("shoulder_rot")[2]

\* C7 as stated: under patch-v2, for an elevation in [0, pi] and an elv_angle
\* within its joint range, the shoulder_rot range set_ctrl writes stays within
\* the joint's static limits, lower bound below upper bound, width unchanged.
C7_RangeWithinStaticLimits ==
  (ret.op = "set_ctrl" /\ self.shoulder_variant = "patch-v2") =>
    LET e == data.qpos[ElvId]
        a == data.qpos[AngId]
        r == model.jnt_range[RotId]
    IN  ( /\ e >= 0 /\ e <= Pi
          /\ a * (Pi \div 2) >= StaticRange("elv_angle")[1]
          /\ a * (Pi \div 2) <= StaticRange("elv_angle")[2] )
        => /\ WithinStaticRotRange(r)
           /\ r[1] < r[2]
           /\ r[2] - r[1] = StaticRange("shoulder_rot")[2] - StaticRange("shoulder_rot")[1]

\* C7 amended: under patch-v2 the range set_ctrl writes is [-pi/2, pi/9] moved
\* down by 2*min(elevation, pi - elevation)/pi * elv_angle: lower bound below
\* upper bound, width unchanged, and for an elevation in [0, pi] within the
\* static limits exactly when the shift is zero (elevation 0 or pi, or
\* elv_angle 0).
C7_RangeShifted ==
  (ret.op = "set_ctrl" /\ self.shoulder_variant = "patch-v2") =>
    LET e == data.qpos[ElvId]
        a == data.qpos[AngId]
        r == model.jnt_range[RotId]
        refl == IF e <= Pi - e THEN e ELSE Pi - e
    IN  /\ r[1] = (0 - (Pi \div 2)) * (Pi \div 2) - refl * a
        /\ r[2] = (Pi \div 9) * (Pi \div 2) - refl * a
        /\ r[1] < r[2]
        /\ r[2] - r[1] = StaticRange("shoulder_rot")[2] - StaticRange("shoulder_rot")[1]
        /\ (e >= 0 /\ e <= Pi) =>
             (WithinStaticRotRange(r) <=> (e = 0 \/ e = Pi \/ a = 0))

\* C7's case: set_ctrl at elevation pi/2 with elv_angle pi/2 has moved the lower
\* bound of the range below the static lower limit.
C7_Witness ==
  /\ ret.op = "set_ctrl"
  /\ self.shoulder_variant = "patch-v2"
  /\ data.qpos[ElvId] = Pi \div 2
  /\ data.qpos[AngId] = Pi \div 2
  /\ model.jnt_range[RotId][1] < StaticRange("shoulder_rot")[1]

\* C10: a set_ctrl step changes the control vector and, under a patch variant,
\* the cached constraint's coefficient (computed from the qpos before the
\* call) and, under patch-v2 only, the shoulder_rot range; qpos, qvel, qacc,
\* activation, time, the object's fields, every other constraint's data and
\* every other joint's range stay as they were.
C10_SetCtrlFrame ==
  [][ ret'.op = "set_ctrl" =>
        /\ self' = self
        /\ [data' EXCEPT !.ctrl = data.ctrl] = data
        /\ model'.eq = model.eq /\ model'.names = model.names
        /\ \A k \in 1..Len(model.eq_data) :
             k # self.eq_ID_shoulder1_r2 + 1 => model'.eq_data[k] = model.eq_data[k]
        /\ IF self.shoulder_variant = "patch-v2"
           THEN \A j \in Joints(model) \ {RotId} : model'.jnt_range[j] = model.jnt_range[j]
           ELSE model'.jnt_range = model.jnt_range
        /\ ~IsPatch(self.shoulder_variant) => model' = model
        /\ IsPatch(self.shoulder_variant) =>
             model'.eq_data[self.eq_ID_shoulder1_r2 + 1] + Pi = 2 * data.qpos[ElvId]
    ]_vars

\* C10's case: set_ctrl under patch-v1 has changed the coefficient and left the
\* shoulder_rot range at its static value, away from the rest posture.
C10_Witness ==
  /\ ret.op = "set_ctrl"
  /\ self.shoulder_variant = "patch-v1"
  /\ data.qpos[ElvId] = Pi \div 2 /\ data.qpos[AngId] = Pi \div 2
  /\ model.eq_data[self.eq_ID_shoulder1_r2 + 1] = 0
  /\ model.jnt_range[RotId] = StaticRange("shoulder_rot")

----------------------------------------------------------------------------
(* Properties of the constructor, checked under SpecCtor *)

\* C1 as stated: the independent and the dependent joints partition the joints
\* 0 .. njnt-1, a joint is dependent exactly when it is the first object of an
\* active equality constraint, and both sets are the ones computed at
\* construction after any later call.
C1_JointPartition ==
  self.status = "ok" =>
    LET ind == Range(self.independent_joints)
        dep == self.dependent_joints
    IN  /\ ind \cup dep = Joints(model)
        /\ ind \cap dep = {}
        /\ \A j \in Joints(model) :
             j \in dep <=> \E k \in 1..Len(model.eq) :
                              model.eq[k].active /\ model.eq[k].obj1id = j
        /\ dep = DependentJoints(model)

\* the joint constraints (type 2) of the model that reference the pair
\* {shoulder1_r2, elv_angle}
PairConstraints ==
  { idx \in EqIds(model) :
      LET e == model.eq[idx + 1]
      IN  /\ e.type = 2
          /\ e.obj1id \in Joints(model) /\ e.obj2id \in Joints(model)
          /\ {model.names[e.obj1id + 1], model.names[e.obj2id + 1]}
               = {"shoulder1_r2", "elv_angle"} }

\* C5 as stated: with a patch variant __init__ succeeds exactly when one joint
\* constraint references the pair {shoulder1_r2, elv_angle}, and then caches its
\* index; otherwise it fails with an assertion error and caches nothing; with
\* a non-patch variant it makes no lookup and does not fail.
C5_PatchLookup ==
  ret.op = "__init__" =>
    IF IsPatch(self.shoulder_variant)
    THEN /\ self.status = "ok" <=> Cardinality(PairConstraints) = 1
         /\ self.status = "ok" => self.eq_ID_shoulder1_r2 \in PairConstraints
         /\ self.status # "ok" =>
              self.status = "AssertionError" /\ self.eq_ID_shoulder1_r2 = None
    ELSE self.status = "ok" /\ self.eq_ID_shoulder1_r2 = None

----------------------------------------------------------------------------
(* Properties of render, checked under SpecRender *)

BothCamerasGiven(r) == r.op = "render" /\ r.camera_id # None /\ r.camera_name # "None"

\* C9 as stated: any render call given both a camera id and a camera name
\* raises, before a viewer is created or a frame rendered, and leaves the
\* viewer cache as it was.
C9_AmbiguousCameraRaises ==
  [][ BothCamerasGiven(ret') =>
        /\ ret'.raised
        /\ calls' = <<>>
        /\ self' = self
    ]_vars

\* C9 amended: a render call in mode rgb_array or depth_array given both a
\* camera id and a camera name raises before a viewer is created or a frame
\* rendered and leaves the object, the model and the data as they were; in
\* mode human, or any other mode, the camera arguments are ignored and the
\* call does not raise.
C9_AmbiguousCameraRaisesInArrayModes ==
  [][ BothCamerasGiven(ret') =>
        IF ret'.mode \in {"rgb_array", "depth_array"}
        THEN /\ ret'.raised
             /\ calls' = <<>>
             /\ self' = self /\ model' = model /\ data' = data
        ELSE ~ret'.raised
    ]_vars

\* C9's case: an ambiguous rgb_array call has raised with a viewer of an
\* earlier call still cached.
C9_Witness ==
  /\ BothCamerasGiven(ret)
  /\ ret.mode = "rgb_array"
  /\ ret.raised
  /\ calls = <<>>
  /\ self.viewers = {"depth_array"}

----------------------------------------------------------------------------
(* Properties of the evaluation script, checked under SpecHarness *)

\* the episodes whose log is complete
FinishedEpisodes ==
  IF harness.pc \in {"idle", "raised"} THEN {} ELSE 1..harness.episode_idx

====
